---------------------------- MODULE Spec2Model ----------------------------
(***************************************************************************)
(* A model of argsearch: the range classification and the integer and      *)
(* categorical range operations of ranges.py, the grid strategy of         *)
(* strategies.py, the template substitution and the command execution      *)
(* engine of commands.py, the optimization driver of optimization.py and   *)
(* the dispatch of interface.py.                                           *)
(*                                                                         *)
(* Python strings are sequences of one-character strings.  Arithmetic on   *)
(* floats is exact rational arithmetic (a numerator over a power of ten or *)
(* over the number of uniform samples); floating-point rounding is not     *)
(* modelled.                                                               *)
(***************************************************************************)
EXTENDS Integers, Sequences, FiniteSets, TLC

VARIABLES
    \* TemplateRange.__call__ (ranges.py)
    values,         \* the tokens argparse collected for one --template option
    parsed,         \* the Range object set on the namespace, or the error raised
    pcP,            \* "call" before TemplateRange.__call__, "done" after
    \* IntRange operations (ranges.py)
    rng,            \* the Range object the operation is called on
    numpy_floor,    \* TRUE: numpy >= 1.20 (integer linspace floors); FALSE: truncates
    call,           \* the last operation called and its argument
    result,         \* what that operation returned
    \* apply_substitutions (commands.py)
    template,       \* the command template
    substitutions,  \* the substitution mapping: <<name, value>> pairs in key order
    command,        \* the command string returned
    pcS,            \* "call" before apply_substitutions, "done" after
    \* run_commands (commands.py) and optimize_command (optimization.py)
    driver,         \* "run_commands" or "optimize_command"
    num_workers,    \* the num_workers argument
    output_json,    \* the output_json argument
    total,          \* len(substitution_list), or trials
    maximize,       \* the maximize argument (optimize_command)
    pc,             \* where the coordinating process is
    step,           \* the loop variable step
    queued,         \* the steps in the pool's task queue, in submission order
    running,        \* the steps whose command is running
    ready,          \* the results of the pool not yet taken, in completion order
    outputs,        \* the list outputs
    printed,        \* what was written to the terminal: <<step, stdout>> pairs
    stderr_sink,    \* what was written to sys.stderr
    progress,       \* the count of the progress bar
    interrupted,    \* a KeyboardInterrupt was raised in the coordinating process
    final_write,    \* what was written after the loop
    objective_values,           \* optimize_command: the objectives of the batch
    best_objective,             \* optimize_command: None or a number
    best_setting,               \* optimize_command: None or a step's substitutions
    steps_since_improvement,    \* optimize_command
    asks,           \* the batches asked of the optimizer, as their first steps
    tells,          \* the <<first step, objectives>> pairs told to the optimizer
    error,          \* the exception that ended the coordinating process, or "none"
    exits,          \* what each finished command did: step -> outcome
    \* main (interface.py)
    strategy,       \* base_args.strategy
    base_command,   \* base_args.command
    count,          \* base_args.trials, divisions or repeats
    range_names,    \* the template names that base_args.ranges gives a range
    templates,      \* the set get_template_names returned
    parsed_ranges,  \* the keys of the dict parse_range_args returned, in key order
    substitution_list,  \* the list main gives to run_commands
    \* strategies.grid (strategies.py)
    templated_string,   \* the templated_string argument
    range_map,      \* the range_map argument: <<name, Range>> pairs in key order
    grid_divisions, \* the divisions argument
    combinations,   \* the list combinations
    command_strings,    \* the list returned
    pcG             \* "call" before strategies.grid, "done" after

parseVars == <<values, parsed, pcP>>
rangeVars == <<rng, numpy_floor, call, result>>
substVars == <<template, substitutions, command, pcS>>
engineVars ==
    <<driver, num_workers, output_json, total, maximize, pc, step, queued, running,
      ready, outputs, printed, stderr_sink, progress, interrupted, final_write,
      objective_values, best_objective, best_setting, steps_since_improvement,
      asks, tells, error, exits>>
mainVars ==
    <<strategy, base_command, count, range_names, templates, parsed_ranges,
      substitution_list>>
strategyVars ==
    <<templated_string, range_map, grid_divisions, combinations, command_strings,
      pcG>>
vars == <<parseVars, rangeVars, substVars, engineVars, mainVars, strategyVars>>

-----------------------------------------------------------------------------
(* Bounds of the model.                                                    *)

\* the most tokens of one range specification
MaxValues == 4
\* integer range bounds are drawn from -MaxInt .. MaxInt
MaxInt == 3
\* grid divisions are drawn from 1 .. MaxDiv
MaxDiv == 5
\* uniform samples are drawn from { k / UDen : k \in 0 .. UDen }
UDen == 6
\* the most characters of a command template given to apply_substitutions
MaxTemplateLen == 6
\* the most substitution mappings given to run_commands
MaxCommands == 3
\* the most trials given to optimize_command
MaxTrials == 3
\* num_workers is drawn from 0 .. MaxWorkers
MaxWorkers == 2
\* the integer ranges of a grid search have bounds in -MaxGridInt .. MaxGridInt
MaxGridInt == 2

-----------------------------------------------------------------------------
(* Strings.                                                                *)

Digits == <<"0", "1", "2", "3", "4", "5", "6", "7", "8", "9">>

IsDigit(c) == \E i \in 1..10 : Digits[i] = c

DigitVal(c) == (CHOOSE i \in 1..10 : Digits[i] = c) - 1

IsSign(c) == c \in {"+", "-"}

Max(a, b) == IF a >= b THEN a ELSE b

Min(a, b) == IF a <= b THEN a ELSE b

RECURSIVE Pow10(_)
Pow10(n) == IF n = 0 THEN 1 ELSE 10 * Pow10(n - 1)

\* the value of a string of digits
RECURSIVE DigitsVal(_)
DigitsVal(s) ==
    IF s = <<>> THEN 0
    ELSE 10 * DigitsVal(SubSeq(s, 1, Len(s) - 1)) + DigitVal(s[Len(s)])

\* s without its leading sign, if it has one
Unsigned(s) == IF s # <<>> /\ IsSign(s[1]) THEN Tail(s) ELSE s

Negative(s) == s # <<>> /\ s[1] = "-"

\* int(s) succeeds: an optional sign and one or more digits
IntLiteral(s) ==
    LET body == Unsigned(s)
    IN  body # <<>> /\ \A i \in 1..Len(body) : IsDigit(body[i])

\* float(s) succeeds: an optional sign, digits with at most one point among
\* them and at least one digit
FloatLiteral(s) ==
    LET body == Unsigned(s)
        points == {i \in 1..Len(body) : body[i] = "."}
    IN  /\ \A i \in 1..Len(body) : IsDigit(body[i]) \/ body[i] = "."
        /\ Cardinality(points) <= 1
        /\ \E i \in 1..Len(body) : IsDigit(body[i])

\* the digits of a float literal, the point removed
Mantissa(body) == SelectSeq(body, IsDigit)

\* the number of digits after the point
FracDigits(body) ==
    IF \E i \in 1..Len(body) : body[i] = "."
    THEN Len(body) - (CHOOSE i \in 1..Len(body) : body[i] = ".")
    ELSE 0

\* str(n) for an integer n
RECURSIVE NatStr(_)
NatStr(n) ==
    IF n < 10 THEN <<Digits[n + 1]>>
    ELSE NatStr(n \div 10) \o <<Digits[(n % 10) + 1]>>

Str(n) == IF n < 0 THEN <<"-">> \o NatStr(-n) ELSE NatStr(n)

\* int(x) for a rational x = n / d with d > 0: truncation towards zero
TruncDiv(n, d) == IF n >= 0 THEN n \div d ELSE -((-n) \div d)

\* floor(x) for a rational x = n / d with d > 0
FloorDiv(n, d) == n \div d

-----------------------------------------------------------------------------
(* cast_range_argument: a number is num / den, den a power of ten.         *)

\* a variant that tries float() before int(): every integer token is a float
cast_range_argument_float_first(arg) ==
    IF FloatLiteral(arg)
    THEN [type |-> "float",
          num |-> (IF Negative(arg) THEN -1 ELSE 1)
                      * DigitsVal(Mantissa(Unsigned(arg))),
          den |-> Pow10(FracDigits(Unsigned(arg)))]
    ELSE [type |-> "str", str |-> arg]

cast_range_argument(arg) ==
    IF IntLiteral(arg)
    THEN [type |-> "int",
          num |-> (IF Negative(arg) THEN -1 ELSE 1) * DigitsVal(Unsigned(arg)),
          den |-> 1]
    ELSE IF FloatLiteral(arg)
    THEN [type |-> "float",
          num |-> (IF Negative(arg) THEN -1 ELSE 1)
                      * DigitsVal(Mantissa(Unsigned(arg))),
          den |-> Pow10(FracDigits(Unsigned(arg)))]
    ELSE [type |-> "str", str |-> arg]

IsInt(x) == x.type = "int"

IsNumber(x) == x.type \in {"int", "float"}

\* a <= b for numbers
Leq(a, b) == a.num * b.den <= b.num * a.den

\* Python's min(a, b) and max(a, b): the first argument wins a tie
PyMin(a, b) == IF Leq(a, b) THEN a ELSE b

PyMax(a, b) == IF Leq(b, a) THEN a ELSE b

-----------------------------------------------------------------------------
(* The Range classes: the constructors.                                    *)

IntRange(a, b) ==
    [kind |-> "IntRange", min_value |-> Min(a, b), max_value |-> Max(a, b)]

LogIntRange(a, b) ==
    [kind |-> "LogIntRange", min_value |-> Min(a, b), max_value |-> Max(a, b)]

FloatRange(a, b) ==
    [kind |-> "FloatRange", min_value |-> PyMin(a, b), max_value |-> PyMax(a, b)]

LogFloatRange(a, b) ==
    [kind |-> "LogFloatRange", min_value |-> PyMin(a, b), max_value |-> PyMax(a, b)]

CategoricalRange(categories) ==
    [kind |-> "CategoricalRange", categories |-> categories]


-----------------------------------------------------------------------------
(* TemplateRange.__call__: the classification of one range specification.  *)

LOG == <<"L", "O", "G">>

\* the tokens a range specification is drawn from: the prefix LOG, positive,
\* zero and negative integers, floats, and tokens that are no number
Tokens ==
    { LOG, <<"2">>, <<"-", "1">>, <<"0">>, <<"1", ".", "5">>, <<"-", ".", "5">>,
      <<".">>, <<"1", "a">>, <<"a", "b", "c">> }

ValueLists == UNION { [1..n -> Tokens] : n \in 0..MaxValues }

ArgumentTypeError == [kind |-> "ArgumentTypeError"]

TemplateRange(vals) ==
    IF Len(vals) < 2 THEN ArgumentTypeError
    ELSE
    LET pair(i, int_range, float_range) ==
            LET first == cast_range_argument(vals[i])
                second == cast_range_argument(vals[i + 1])
            IN  IF IsInt(first) /\ IsInt(second)
                THEN <<TRUE, IF int_range = "IntRange"
                             THEN IntRange(first.num, second.num)
                             ELSE LogIntRange(first.num, second.num)>>
                ELSE IF IsNumber(first) /\ IsNumber(second)
                THEN <<TRUE, IF float_range = "FloatRange"
                             THEN FloatRange(first, second)
                             ELSE LogFloatRange(first, second)>>
                ELSE <<FALSE>>
        linear == IF Len(vals) = 2 THEN pair(1, "IntRange", "FloatRange")
                  ELSE <<FALSE>>
        log == IF Len(vals) = 3 /\ vals[1] = LOG
               THEN pair(2, "LogIntRange", "LogFloatRange")
               ELSE <<FALSE>>
    IN  IF linear[1] THEN linear[2]
        ELSE IF log[1] THEN log[2]
        ELSE CategoricalRange(vals)

-----------------------------------------------------------------------------
(* IntRange: grid and transform_uniform_sample.                            *)

\* numpy.linspace(start, stop, num, dtype=int) for integers start <= stop and
\* num >= 1: num evenly spaced points, the last one stop itself, converted to
\* integers by flooring (numpy >= 1.20) or truncating towards zero (before)
linspace(start, stop, num, floor) ==
    [i \in 1..num |->
        IF num = 1 THEN start
        ELSE IF i = num THEN stop
        ELSE LET n == start * (num - 1) + (i - 1) * (stop - start)
             IN  IF floor THEN FloorDiv(n, num - 1) ELSE TruncDiv(n, num - 1)]

\* a variant that does not clamp divisions to the size of the range
IntRange_grid_unclamped(self, divisions, floor) ==
    LET space == linspace(self.min_value, self.max_value, divisions, floor)
    IN  [i \in 1..Len(space) |-> Str(space[i])]

IntRange_grid(self, divisions, floor) ==
    LET clamped == Min(divisions, self.max_value - self.min_value + 1)
        space == linspace(self.min_value, self.max_value, clamped, floor)
    IN  [i \in 1..Len(space) |-> Str(space[i])]

\* uniform_sample = k / UDen
IntRange_transform_uniform_sample(self, k) ==
    LET dynamic_range == self.max_value + 1 - self.min_value
        \* float_value = float_num / UDen
        float_num == k * dynamic_range + self.min_value * UDen
    IN  Str(TruncDiv(float_num, UDen))

\* the integer a decimal string denotes
IntOf(s) == (IF Negative(s) THEN -1 ELSE 1) * DigitsVal(Unsigned(s))

-----------------------------------------------------------------------------
(* CategoricalRange: grid and transform_uniform_sample.                    *)

\* the exception of assert False, a value that is no category
AssertionError == <<"AssertionError">>

CategoricalRange_grid(self, divisions) == self.categories

\* uniform_sample = k / UDen and chunk_size = 1 / n: the test
\* i * chunk_size <= uniform_sample < (i + 1) * chunk_size is
\* i * UDen <= k * n < (i + 1) * UDen; the first i that passes it returns its
\* category, and assert False is reached when none does
CategoricalRange_transform_uniform_sample(self, k) ==
    LET n == Len(self.categories)
        hits == {i \in 0..(n - 1) :
                    i * UDen <= k * n /\ k * n < (i + 1) * UDen}
    IN  IF hits = {} THEN AssertionError
        ELSE self.categories[(CHOOSE i \in hits : \A j \in hits : i <= j) + 1]

-----------------------------------------------------------------------------
(* LogIntRange: grid and transform_uniform_sample.                         *)

RECURSIVE Power(_, _)
Power(b, e) == IF e = 0 THEN 1 ELSE b * Power(b, e - 1)

\* the integer part of the n-th root of x, for x >= 0 and n >= 1
IRoot(x, n) ==
    CHOOSE m \in 0..x : Power(m, n) <= x /\ Power(m + 1, n) > x

\* the exception numpy and int() raise, a value that is no grid point
ValueError == <<"ValueError">>

\* what converting nan to an integer yields: the C conversion is undefined,
\* the smallest 64-bit integer on x86 and 0 on ARM
NaNCasts ==
    { <<"0">>,
      <<"-", "9", "2", "2", "3", "3", "7", "2", "0", "3", "6", "8", "5", "4",
        "7", "7", "5", "8", "0", "8">> }

\* numpy.geomspace(start, stop, num, dtype=int) for non-zero integers
\* start <= stop and num >= 1: the endpoints are start and stop themselves;
\* the points between are |start|^(1-t) * |stop|^t with the common sign for
\* t = (i-1)/(num-1), truncated towards zero by the conversion to int, and
\* nan when the signs differ (the logarithm of a negative number)
geomspace(start, stop, num) ==
    [i \in 1..num |->
        IF i = 1 THEN [nan |-> FALSE, int |-> start]
        ELSE IF i = num THEN [nan |-> FALSE, int |-> stop]
        ELSE IF start < 0 /\ stop > 0 THEN [nan |-> TRUE, int |-> 0]
        ELSE LET out_sign == IF start < 0 THEN -1 ELSE 1
                 a == out_sign * start
                 b == out_sign * stop
             IN  [nan |-> FALSE,
                  int |-> out_sign
                          * IRoot(Power(a, num - i) * Power(b, i - 1), num - 1)]]

\* geomspace raises ValueError when an endpoint is zero
LogIntRange_grid(self, divisions, nan_cast) ==
    IF self.min_value = 0 \/ self.max_value = 0 THEN <<ValueError>>
    ELSE
    LET clamped == Min(divisions, self.max_value - self.min_value + 1)
        space == geomspace(self.min_value, self.max_value, clamped)
    IN  [i \in 1..Len(space) |->
            IF space[i].nan THEN nan_cast ELSE Str(space[i].int)]

\* uniform_sample = k / UDen; the logarithm of a number that is not positive
\* is nan or -inf, float_value is then nan and int(nan) raises ValueError;
\* otherwise float_value = min^(1-u) * max^u
LogIntRange_transform_uniform_sample(self, k) ==
    IF self.min_value <= 0 THEN ValueError
    ELSE Str(IRoot(Power(self.min_value, UDen - k) * Power(self.max_value, k),
                   UDen))

\* rng.grid(divisions) and rng.transform_uniform_sample(uniform_sample): the
\* method of the class of rng
Range_grid(self, divisions, floor) ==
    IF self.kind = "IntRange" THEN IntRange_grid(self, divisions, floor)
    ELSE CategoricalRange_grid(self, divisions)

Range_transform_uniform_sample(self, k) ==
    IF self.kind = "IntRange" THEN IntRange_transform_uniform_sample(self, k)
    ELSE IF self.kind = "LogIntRange"
    THEN LogIntRange_transform_uniform_sample(self, k)
    ELSE CategoricalRange_transform_uniform_sample(self, k)

-----------------------------------------------------------------------------
(* Idle values: what the variables of the other components hold while one  *)
(* component runs.                                                         *)

NoRange == [kind |-> "none"]

NoCall == [op |-> "none"]

IdleParse == values = <<>> /\ parsed = NoRange /\ pcP = "idle"

IdleRange == rng = NoRange /\ numpy_floor = FALSE /\ call = NoCall /\ result = <<>>

IdleSubst ==
    template = <<>> /\ substitutions = <<>> /\ command = <<>> /\ pcS = "idle"

None == [type |-> "None"]

IdleMain ==
    /\ strategy = "none" /\ base_command = <<>> /\ count = 0
    /\ range_names = {} /\ templates = {}
    /\ parsed_ranges = <<>> /\ substitution_list = <<>>

IdleStrategy ==
    /\ templated_string = <<>> /\ range_map = <<>> /\ grid_divisions = 0
    /\ combinations = <<>> /\ command_strings = <<>> /\ pcG = "idle"

IdleEngine ==
    /\ driver = "none" /\ num_workers = 0 /\ output_json = FALSE /\ total = 0
    /\ maximize = FALSE /\ pc = "idle" /\ step = 0 /\ queued = <<>>
    /\ running = {} /\ ready = <<>> /\ outputs = <<>> /\ printed = <<>>
    /\ stderr_sink = <<>> /\ progress = 0 /\ interrupted = FALSE
    /\ final_write = <<>> /\ objective_values = <<>> /\ best_objective = None
    /\ best_setting = None /\ steps_since_improvement = 0 /\ asks = <<>>
    /\ tells = <<>> /\ error = "none" /\ exits = <<>>

-----------------------------------------------------------------------------
(* SpecParse: argparse calls TemplateRange.__call__ on one option's tokens. *)

InitParse ==
    /\ values \in ValueLists
    /\ parsed = NoRange
    /\ pcP = "call"
    /\ IdleRange
    /\ IdleSubst
    /\ IdleEngine
    /\ IdleMain
    /\ IdleStrategy

TemplateRangeCall ==
    /\ pcP = "call"
    /\ parsed' = TemplateRange(values)
    /\ pcP' = "done"
    /\ UNCHANGED <<values, rangeVars, substVars, engineVars, mainVars, strategyVars>>

NextParse == TemplateRangeCall

SpecParse == InitParse /\ [][NextParse]_vars

-----------------------------------------------------------------------------
(* SpecRange: the operations of a constructed IntRange, LogIntRange or      *)
(* CategoricalRange.                                                       *)

IntRanges == { IntRange(a, b) : a, b \in -MaxInt..MaxInt }

\* the categories are tokens that are no number; a category may be repeated
Categories == { <<"a">>, <<"b">> }

CategoricalRanges ==
    { CategoricalRange(c) : c \in UNION { [1..n -> Categories] : n \in 2..MaxValues } }

\* TemplateRange builds a LogIntRange from any two integers
LogIntRanges == { LogIntRange(a, b) : a, b \in -MaxInt..MaxInt }

InitRange ==
    /\ rng \in IntRanges \cup LogIntRanges \cup CategoricalRanges
    /\ numpy_floor \in BOOLEAN
    /\ call = NoCall
    /\ result = <<>>
    /\ IdleParse
    /\ IdleSubst
    /\ IdleEngine
    /\ IdleMain
    /\ IdleStrategy

GridCall ==
    \E d \in 1..MaxDiv, nan_cast \in NaNCasts :
        /\ call' = [op |-> "grid", divisions |-> d]
        /\ result' = IF rng.kind = "LogIntRange"
                     THEN LogIntRange_grid(rng, d, nan_cast)
                     ELSE Range_grid(rng, d, numpy_floor)
        /\ UNCHANGED <<rng, numpy_floor, parseVars, substVars, engineVars, mainVars, strategyVars>>

TransformCall ==
    \E k \in 0..UDen :
        /\ call' = [op |-> "transform_uniform_sample", k |-> k]
        /\ result' = <<Range_transform_uniform_sample(rng, k)>>
        /\ UNCHANGED <<rng, numpy_floor, parseVars, substVars, engineVars, mainVars, strategyVars>>

NextRange == GridCall \/ TransformCall

SpecRange == InitRange /\ [][NextRange]_vars

-----------------------------------------------------------------------------
(* apply_substitutions.                                                    *)

\* s[i..] starts with sub
StartsAt(s, i, sub) ==
    i + Len(sub) - 1 <= Len(s) /\ SubSeq(s, i, i + Len(sub) - 1) = sub

\* sub in s
Occurs(sub, s) == \E i \in 1..(Len(s) + 1) : StartsAt(s, i, sub)

\* s.replace(old, new) for a non-empty old: the non-overlapping occurrences
\* of old, found from left to right, are replaced
RECURSIVE Replace(_, _, _)
Replace(s, old, new) ==
    IF Len(s) < Len(old) THEN s
    ELSE IF StartsAt(s, 1, old)
    THEN new \o Replace(SubSeq(s, Len(old) + 1, Len(s)), old, new)
    ELSE <<s[1]>> \o Replace(Tail(s), old, new)

\* "{" + name + "}"
Placeholder(name) == <<"{">> \o name \o <<"}">>

\* the loop over substitutions.items(), from the n-th item on
RECURSIVE apply_from(_, _, _)
apply_from(cmd, subs, n) ==
    IF n > Len(subs) THEN cmd
    ELSE apply_from(Replace(cmd, Placeholder(subs[n][1]), subs[n][2]), subs, n + 1)

apply_substitutions(cmd, subs) == apply_from(cmd, subs, 1)

-----------------------------------------------------------------------------
(* SpecSubst: apply_substitutions on one template and one mapping.         *)

TemplateChars == {"{", "a", "b", "}"}

Templates == UNION { [1..n -> TemplateChars] : n \in 0..MaxTemplateLen }

Names == { <<"a">>, <<"b">> }

\* the values of a mapping: a plain value, a value that is a placeholder of the
\* mapping, and values that are pieces of one
SubstValues ==
    { <<"x">>, <<"{", "a", "}">>, <<"{", "b", "}">>, <<"{">>, <<"b", "}">> }

\* the mappings over one or two of the names, in either key order
Mappings ==
    { <<<<n, v>>>> : n \in Names, v \in SubstValues }
    \cup
    \* the two names differ: a dict holds a key once
    { <<<<p[1], v1>>, <<p[2], v2>>>> :
          p \in {q \in Names \X Names : q[1] # q[2]},
          v1 \in SubstValues, v2 \in SubstValues }

InitSubst ==
    /\ template \in Templates
    /\ substitutions \in Mappings
    /\ command = <<>>
    /\ pcS = "call"
    /\ IdleParse
    /\ IdleRange
    /\ IdleEngine
    /\ IdleMain
    /\ IdleStrategy

ApplySubstitutions ==
    /\ pcS = "call"
    /\ command' = apply_substitutions(template, substitutions)
    /\ pcS' = "done"
    /\ UNCHANGED <<template, substitutions, parseVars, rangeVars, engineVars, mainVars, strategyVars>>

NextSubst == ApplySubstitutions

SpecSubst == InitSubst /\ [][NextSubst]_vars

-----------------------------------------------------------------------------
(* strategies.grid.                                                        *)

\* a variant whose round is [x + [y] for y in pool for x in partial]
RECURSIVE Extend_pool_outer(_, _)
Extend_pool_outer(partial, pool) ==
    IF pool = <<>> THEN <<>>
    ELSE [x \in 1..Len(partial) |-> Append(partial[x], Head(pool))]
             \o Extend_pool_outer(partial, Tail(pool))

\* one round of itertools.product: [x + [y] for x in partial for y in pool]
RECURSIVE Extend(_, _)
Extend(partial, pool) ==
    IF partial = <<>> THEN <<>>
    ELSE [y \in 1..Len(pool) |-> Append(Head(partial), pool[y])]
             \o Extend(Tail(partial), pool)

\* itertools.product(*grids): result = [[]], then one round per grid, the
\* first n grids here
RECURSIVE product(_, _)
product(grids, n) ==
    IF n = 0 THEN << <<>> >>
    ELSE Extend(product(grids, n - 1), grids[n])

\* dict(zip(template_names, combination))
Zip(names, combination) ==
    [i \in 1..Min(Len(names), Len(combination)) |-> <<names[i], combination[i]>>]

\* strategies.grid, for a range map that is not empty: the combinations and
\* the command strings returned
grid(string, map, div, floor) ==
    LET template_names == [i \in DOMAIN map |-> map[i][1]]
        template_ranges == [i \in DOMAIN map |-> map[i][2]]
        grids == [i \in DOMAIN map |-> Range_grid(template_ranges[i], div, floor)]
        combos == product(grids, Len(grids))
    IN  [combinations |-> combos,
         command_strings |->
             [k \in DOMAIN combos |->
                 apply_substitutions(string, Zip(template_names, combos[k]))]]

-----------------------------------------------------------------------------
(* SpecGrid: strategies.grid on one template and one range map.            *)

\* the template names of the commands
RangeNames == { <<"x">>, <<"y">> }

GridTemplates ==
    { <<"{", "x", "}">>, <<"{", "x", "}", " ", "{", "y", "}">> }

\* the ranges of a grid search: integer ranges, and categorical ranges of two
\* categories, which may be the same one
GridRanges ==
    { IntRange(a, b) : a, b \in -MaxGridInt..MaxGridInt }
        \cup { CategoricalRange(c) : c \in [1..2 -> Categories] }

\* the range maps over one or two of the names x and y, in either key order
RangeMaps ==
    { << <<n, r>> >> : n \in RangeNames, r \in GridRanges }
    \cup
    { << <<p[1], r1>>, <<p[2], r2>> >> :
          p \in {q \in RangeNames \X RangeNames : q[1] # q[2]},
          r1 \in GridRanges, r2 \in GridRanges }

InitGrid ==
    /\ templated_string \in GridTemplates
    /\ range_map \in RangeMaps
    /\ grid_divisions \in 1..MaxDiv
    /\ combinations = <<>>
    /\ command_strings = <<>>
    /\ pcG = "call"
    /\ rng = NoRange /\ numpy_floor \in BOOLEAN /\ call = NoCall /\ result = <<>>
    /\ IdleParse
    /\ IdleSubst
    /\ IdleEngine
    /\ IdleMain

GridStrategy ==
    /\ pcG = "call"
    /\ LET returned == grid(templated_string, range_map, grid_divisions, numpy_floor)
       IN  /\ combinations' = returned.combinations
           /\ command_strings' = returned.command_strings
    /\ pcG' = "done"
    /\ UNCHANGED <<templated_string, range_map, grid_divisions>>
    /\ UNCHANGED <<parseVars, rangeVars, substVars, engineVars, mainVars>>

NextGrid == GridStrategy

SpecGrid == InitGrid /\ [][NextGrid]_vars

-----------------------------------------------------------------------------
(* Commands: what a subprocess does, and capture_command.                  *)

\* the outcomes a command is drawn from: success with a number on the last
\* line, success with a line before the number and a blank line after it,
\* failure with a number, failure without a number, success with no output
Outcomes ==
    { [returncode |-> 0, stdout |-> <<"1", "\n">>, stderr |-> <<>>],
      [returncode |-> 0, stdout |-> <<"a", "\n", "2", "\n", " ", "\n">>,
       stderr |-> <<>>],
      [returncode |-> 1, stdout |-> <<"3", "\n">>, stderr |-> <<"e">>],
      [returncode |-> 2, stdout |-> <<"a", "\n">>, stderr |-> <<"e">>],
      [returncode |-> 0, stdout |-> <<>>, stderr |-> <<>>] }

\* a variant that counts the steps from one
args_packed_from_one(n) == [i \in 1..n |-> i]

\* the steps of args_packed, the tasks made by enumerate(substitution_list)
args_packed(n) == [i \in 1..n |-> i - 1]

\* a variant that records the following step
capture_command_next_step(s, outcome) ==
    [step |-> s + 1, returncode |-> outcome.returncode,
     stdout |-> outcome.stdout, stderr |-> outcome.stderr]

\* a variant that reports every command as a success
capture_command_rc0(s, outcome) ==
    [step |-> s, returncode |-> 0,
     stdout |-> outcome.stdout, stderr |-> outcome.stderr]

\* the result of capture_command for step s, the command having done outcome;
\* its command and substitutions are those of step s
capture_command(s, outcome) ==
    [step |-> s, returncode |-> outcome.returncode,
     stdout |-> outcome.stdout, stderr |-> outcome.stderr]

\* the pool is used: always by optimize_command, by run_commands with workers
UsesPool == driver = "optimize_command" \/ num_workers > 0

\* the coordinating process is alive
Alive == pc \notin {"idle", "done", "crashed"}

\* s without its i-th element
RemoveAt(s, i) == SubSeq(s, 1, i - 1) \o SubSeq(s, i + 1, Len(s))

\* a worker process takes the next task of the queue and starts its command
WorkerStart ==
    /\ UsesPool
    /\ Alive
    /\ queued # <<>>
    /\ Cardinality(running) < num_workers
    /\ running' = running \cup {Head(queued)}
    /\ queued' = Tail(queued)
    /\ UNCHANGED <<driver, num_workers, output_json, total, maximize, pc, step,
                   ready, outputs, printed, stderr_sink, progress, interrupted,
                   final_write, objective_values, best_objective, best_setting,
                   steps_since_improvement, asks, tells, error, exits>>
    /\ UNCHANGED <<parseVars, rangeVars, substVars, mainVars, strategyVars>>

\* a worker's command ends and the worker puts its result on the result queue
WorkerFinish ==
    /\ UsesPool
    /\ Alive
    /\ \E s \in running, o \in Outcomes :
        /\ running' = running \ {s}
        /\ ready' = Append(ready, capture_command(s, o))
        /\ exits' = (s :> o) @@ exits
    /\ UNCHANGED <<driver, num_workers, output_json, total, maximize, pc, step,
                   queued, outputs, printed, stderr_sink, progress, interrupted,
                   final_write, objective_values, best_objective, best_setting,
                   steps_since_improvement, asks, tells, error>>
    /\ UNCHANGED <<parseVars, rangeVars, substVars, mainVars, strategyVars>>

\* the streaming branch of the loops over pool results: the header and the
\* stdout go to the terminal, a non-empty stderr to sys.stderr
WriteOutput(output) ==
    /\ printed' = Append(printed, <<output.step, output.stdout>>)
    /\ stderr_sink' = IF output.stderr # <<>>
                      THEN Append(stderr_sink, output.stderr)
                      ELSE stderr_sink

-----------------------------------------------------------------------------
(* run_commands.                                                           *)

optUnchanged ==
    UNCHANGED <<objective_values, best_objective, best_setting,
                steps_since_improvement, asks, tells>>

InitRun ==
    /\ driver = "run_commands"
    /\ num_workers \in 0..MaxWorkers
    /\ output_json \in BOOLEAN
    /\ total \in 1..MaxCommands
    /\ maximize = FALSE
    /\ pc = IF num_workers > 0 THEN "pool_drain" ELSE "seq_next"
    /\ step = 0
    \* args_packed is given to imap_unordered
    /\ queued = IF num_workers > 0 THEN args_packed(total) ELSE <<>>
    /\ running = {} /\ ready = <<>> /\ outputs = <<>> /\ printed = <<>>
    /\ stderr_sink = <<>> /\ progress = 0 /\ interrupted = FALSE
    /\ final_write = <<>> /\ objective_values = <<>> /\ best_objective = None
    /\ best_setting = None /\ steps_since_improvement = 0 /\ asks = <<>>
    /\ tells = <<>> /\ error = "none" /\ exits = <<>>
    /\ IdleParse /\ IdleRange /\ IdleSubst /\ IdleMain /\ IdleStrategy

\* one iteration of the loop over imap_unordered: the next completed result
PoolDrain ==
    /\ driver = "run_commands"
    /\ pc = "pool_drain"
    /\ ready # <<>>
    /\ LET output == Head(ready)
       IN  /\ ready' = Tail(ready)
           /\ progress' = progress + 1
           /\ IF output_json
              THEN /\ outputs' = Append(outputs, output)
                   /\ UNCHANGED <<printed, stderr_sink>>
              ELSE /\ WriteOutput(output)
                   /\ UNCHANGED outputs
           \* the iterator ends after len(args_packed) results
           /\ pc' = IF progress' = total THEN "report" ELSE "pool_drain"
    /\ UNCHANGED <<driver, num_workers, output_json, total, maximize, step, queued,
                   running, interrupted, final_write, error, exits>>
    /\ optUnchanged
    /\ UNCHANGED <<parseVars, rangeVars, substVars, mainVars, strategyVars>>

\* the sequential loops: the command of the next step is started
SeqStart ==
    /\ driver = "run_commands"
    /\ pc = "seq_next"
    /\ running' = {step}
    /\ pc' = "seq_run"
    /\ UNCHANGED <<driver, num_workers, output_json, total, maximize, step, queued,
                   ready, outputs, printed, stderr_sink, progress, interrupted,
                   final_write, error, exits>>
    /\ optUnchanged
    /\ UNCHANGED <<parseVars, rangeVars, substVars, mainVars, strategyVars>>

\* the sequential loops: the running command ends; capture_command's result
\* is appended to outputs, or stream_command has written the stdout (the
\* stderr is the terminal's own, the exit status is awaited and dropped)
SeqFinish ==
    /\ driver = "run_commands"
    /\ pc = "seq_run"
    /\ \E o \in Outcomes :
        /\ exits' = (step :> o) @@ exits
        /\ IF output_json
           THEN /\ outputs' = Append(outputs, capture_command(step, o))
                /\ UNCHANGED <<printed, stderr_sink>>
           ELSE /\ printed' = Append(printed, <<step, o.stdout>>)
                /\ stderr_sink' = IF o.stderr # <<>>
                                  THEN Append(stderr_sink, o.stderr)
                                  ELSE stderr_sink
                /\ UNCHANGED outputs
    /\ running' = {}
    /\ step' = step + 1
    /\ progress' = progress + 1
    /\ pc' = IF step' = total THEN "report" ELSE "seq_next"
    /\ UNCHANGED <<driver, num_workers, output_json, total, maximize, queued, ready,
                   interrupted, final_write, error>>
    /\ optUnchanged
    /\ UNCHANGED <<parseVars, rangeVars, substVars, mainVars, strategyVars>>

\* a KeyboardInterrupt is raised in the coordinating process during a loop:
\* the pool loop and the sequential JSON loop catch it, the sequential
\* streaming loop has no handler
RunInterrupt ==
    /\ driver = "run_commands"
    /\ pc \in {"pool_drain", "seq_next", "seq_run"}
    /\ interrupted' = TRUE
    /\ IF num_workers > 0
       THEN pc' = "report" /\ UNCHANGED <<running, error>>
       ELSE /\ running' = {}
            /\ IF output_json
               THEN pc' = "report" /\ UNCHANGED error
               ELSE pc' = "crashed" /\ error' = "KeyboardInterrupt"
    /\ UNCHANGED <<driver, num_workers, output_json, total, maximize, step, queued,
                   ready, outputs, printed, stderr_sink, progress, final_write,
                   exits>>
    /\ optUnchanged
    /\ UNCHANGED <<parseVars, rangeVars, substVars, mainVars, strategyVars>>

\* after the loop: json.dumps(outputs) is written in JSON mode; return
RunReport ==
    /\ driver = "run_commands"
    /\ pc = "report"
    /\ final_write' = IF output_json
                      THEN <<[kind |-> "json", array |-> outputs]>>
                      ELSE <<>>
    /\ pc' = "done"
    /\ UNCHANGED <<driver, num_workers, output_json, total, maximize, step, queued,
                   running, ready, outputs, printed, stderr_sink, progress,
                   interrupted, error, exits>>
    /\ optUnchanged
    /\ UNCHANGED <<parseVars, rangeVars, substVars, mainVars, strategyVars>>

\* the steps of run_commands that are not an interrupt
RunProgress ==
    WorkerStart \/ WorkerFinish \/ PoolDrain \/ SeqStart \/ SeqFinish \/ RunReport

NextRun == RunProgress \/ RunInterrupt

SpecRun == InitRun /\ [][NextRun]_vars

\* the operating system runs the workers, the commands end and the
\* coordinating process goes on; an interrupt need not come
SpecRunFair == SpecRun /\ WF_vars(RunProgress)

-----------------------------------------------------------------------------
(* optimize_command.                                                       *)

Whitespace == {" ", "\n"}

\* s.strip()
RECURSIVE LStrip(_)
LStrip(s) == IF s # <<>> /\ s[1] \in Whitespace THEN LStrip(Tail(s)) ELSE s

RECURSIVE RStrip(_)
RStrip(s) ==
    IF s # <<>> /\ s[Len(s)] \in Whitespace
    THEN RStrip(SubSeq(s, 1, Len(s) - 1))
    ELSE s

Strip(s) == LStrip(RStrip(s))

\* s.split("\n")[-1]: what follows the last newline of s
LastLine(s) ==
    LET newlines == {i \in 1..Len(s) : s[i] = "\n"}
    IN  IF newlines = {} THEN s
        ELSE SubSeq(s, (CHOOSE i \in newlines : \A j \in newlines : j <= i) + 1,
                    Len(s))

\* float(s): the number s denotes, white space around it skipped
Float(s) ==
    LET lit == Strip(s)
    IN  [type |-> "float",
         num |-> (IF Negative(lit) THEN -1 ELSE 1)
                     * DigitsVal(Mantissa(Unsigned(lit))),
         den |-> Pow10(FracDigits(Unsigned(lit)))]

\* a variant that reads the first line of the output
get_command_output_first_line(output) ==
    LET stripped == Strip(output)
        newlines == {i \in 1..Len(stripped) : stripped[i] = "\n"}
        first == IF newlines = {} THEN stripped
                 ELSE SubSeq(stripped, 1,
                             (CHOOSE i \in newlines : \A j \in newlines : i <= j) - 1)
    IN  IF FloatLiteral(Strip(first))
        THEN [ok |-> TRUE, value |-> Float(first)]
        ELSE [ok |-> FALSE, line |-> first]

\* the number of the last line of the stripped output, or the ValueError
\* that quotes that line
get_command_output(output) ==
    LET last == LastLine(Strip(output))
    IN  IF FloatLiteral(Strip(last))
        THEN [ok |-> TRUE, value |-> Float(last)]
        ELSE [ok |-> FALSE, line |-> last]

\* get_command_output(output["stdout"]) for the stdout of every outcome
objective_of == [s \in {o.stdout : o \in Outcomes} |-> get_command_output(s)]

\* the message of that ValueError, which ends "Got: {lines[-1]}."
ErrorMessage(line) == <<"Got: ">> \o line \o <<".">>

\* objective *= -1
Negated(x) == [x EXCEPT !.num = -x.num]

\* a variant that also holds for equal numbers
Greater_or_equal(a, b) == Leq(b, a)

\* a > b for numbers
Greater(a, b) == ~Leq(a, b)

\* num_workers as optimize_command uses it: one worker when none was asked for
BatchSize(n) == IF n = 0 THEN 1 ELSE n

runUnchanged == UNCHANGED <<driver, num_workers, output_json, total, maximize>>

InitOpt ==
    /\ driver = "optimize_command"
    /\ num_workers \in {BatchSize(n) : n \in 0..MaxWorkers}
    /\ output_json \in BOOLEAN
    /\ total \in 1..MaxTrials
    /\ maximize \in BOOLEAN
    /\ pc = "ask"
    /\ step = 0
    /\ queued = <<>> /\ running = {} /\ ready = <<>> /\ outputs = <<>>
    /\ printed = <<>> /\ stderr_sink = <<>> /\ progress = 0
    /\ interrupted = FALSE /\ final_write = <<>> /\ objective_values = <<>>
    /\ best_objective = None /\ best_setting = None
    /\ steps_since_improvement = 0 /\ asks = <<>> /\ tells = <<>>
    /\ error = "none" /\ exits = <<>>
    /\ IdleParse /\ IdleRange /\ IdleSubst /\ IdleMain /\ IdleStrategy

\* a variant that asks for the next batch while the tell of the batch is
\* still to come
OptAsk_before_tell ==
    /\ driver = "optimize_command"
    /\ pc \in {"ask", "tell"}
    /\ asks' = Append(asks, step)
    /\ objective_values' = <<>>
    /\ queued' = queued \o [i \in 1..num_workers |-> step + i - 1]
    /\ pc' = "eval"
    /\ runUnchanged
    /\ UNCHANGED <<step, running, ready, outputs, printed, stderr_sink, progress,
                   interrupted, final_write, best_objective, best_setting,
                   steps_since_improvement, tells, error, exits>>
    /\ UNCHANGED <<parseVars, rangeVars, substVars, mainVars, strategyVars>>

\* optimizer.ask(num_workers) and eval_commands: the candidates of the batch
\* are given to the pool as the steps step .. step + num_workers - 1
OptAsk ==
    /\ driver = "optimize_command"
    /\ pc = "ask"
    /\ asks' = Append(asks, step)
    /\ objective_values' = <<>>
    /\ queued' = queued \o [i \in 1..num_workers |-> step + i - 1]
    /\ pc' = "eval"
    /\ runUnchanged
    /\ UNCHANGED <<step, running, ready, outputs, printed, stderr_sink, progress,
                   interrupted, final_write, best_objective, best_setting,
                   steps_since_improvement, tells, error, exits>>
    /\ UNCHANGED <<parseVars, rangeVars, substVars, mainVars, strategyVars>>

\* a variant that yields the results in the order the workers completed
\* them, as Pool.imap_unordered does
imap_unordered(results, next_step) == IF results = <<>> THEN {} ELSE {1}

\* process_pool.imap: the iterator yields the results in the order the tasks
\* were submitted; the result it can yield now is the one of next_step,
\* wherever it stands among the completed results
imap(results, next_step) ==
    {i \in 1..Len(results) : results[i].step = next_step}

\* one iteration of the loop over imap's results: the result of the next
\* step of the batch, once it is there
OptProcess ==
    /\ driver = "optimize_command"
    /\ pc = "eval"
    /\ \E i \in imap(ready, step + Len(objective_values)) :
        /\ LET output == ready[i]
               got == objective_of[output.stdout]
               objective == IF maximize THEN Negated(got.value) ELSE got.value
           IN  /\ ready' = RemoveAt(ready, i)
               /\ IF ~got.ok
                  THEN \* the ValueError leaves the loop and optimize_command,
                       \* and the interpreter writes its message to sys.stderr
                       /\ pc' = "crashed"
                       /\ error' = "ValueError"
                       /\ stderr_sink' = Append(stderr_sink, ErrorMessage(got.line))
                       /\ UNCHANGED <<objective_values, outputs, printed,
                                      best_objective, best_setting,
                                      steps_since_improvement, progress>>
                  ELSE /\ objective_values' = Append(objective_values, objective)
                       /\ IF output_json
                          THEN /\ outputs' = Append(outputs, output)
                               /\ UNCHANGED <<printed, stderr_sink>>
                          ELSE /\ WriteOutput(output)
                               /\ UNCHANGED outputs
                       /\ IF best_objective = None
                             \/ Greater(best_objective, objective)
                          THEN /\ best_objective' = objective
                               /\ best_setting' = [step |-> output.step]
                               /\ steps_since_improvement' = 0
                          ELSE /\ steps_since_improvement'
                                      = steps_since_improvement + 1
                               /\ UNCHANGED <<best_objective, best_setting>>
                       /\ progress' = progress + 1
                       /\ pc' = IF Len(objective_values') = num_workers
                                THEN "tell" ELSE "eval"
                       /\ UNCHANGED error
    /\ runUnchanged
    /\ UNCHANGED <<step, queued, running, interrupted, final_write, asks, tells,
                   exits>>
    /\ UNCHANGED <<parseVars, rangeVars, substVars, mainVars, strategyVars>>

\* a variant whose loop is over range(0, trials)
OptTell_step_one ==
    /\ driver = "optimize_command"
    /\ pc = "tell"
    /\ tells' = Append(tells, <<step, objective_values>>)
    /\ step' = step + 1
    /\ pc' = IF step' < total THEN "ask" ELSE "report"
    /\ runUnchanged
    /\ UNCHANGED <<queued, running, ready, outputs, printed, stderr_sink, progress,
                   interrupted, final_write, objective_values, best_objective,
                   best_setting, steps_since_improvement, asks, error, exits>>
    /\ UNCHANGED <<parseVars, rangeVars, substVars, mainVars, strategyVars>>

\* optimizer.tell(args_list, objective_values), and the next step of
\* range(0, trials, num_workers)
OptTell ==
    /\ driver = "optimize_command"
    /\ pc = "tell"
    /\ tells' = Append(tells, <<step, objective_values>>)
    /\ step' = step + num_workers
    /\ pc' = IF step' < total THEN "ask" ELSE "report"
    /\ runUnchanged
    /\ UNCHANGED <<queued, running, ready, outputs, printed, stderr_sink, progress,
                   interrupted, final_write, objective_values, best_objective,
                   best_setting, steps_since_improvement, asks, error, exits>>
    /\ UNCHANGED <<parseVars, rangeVars, substVars, mainVars, strategyVars>>

\* a KeyboardInterrupt is raised in the coordinating process inside the try
OptInterrupt ==
    /\ driver = "optimize_command"
    /\ pc \in {"ask", "eval", "tell"}
    /\ interrupted' = TRUE
    /\ pc' = "report"
    /\ runUnchanged
    /\ UNCHANGED <<step, queued, running, ready, outputs, printed, stderr_sink,
                   progress, final_write, objective_values, best_objective,
                   best_setting, steps_since_improvement, asks, tells, error,
                   exits>>
    /\ UNCHANGED <<parseVars, rangeVars, substVars, mainVars, strategyVars>>

\* after the try: the JSON of outputs, or the best value and setting;
\* best_objective *= -1 is a TypeError while best_objective is None
OptReport ==
    /\ driver = "optimize_command"
    /\ pc = "report"
    /\ IF output_json
       THEN /\ final_write' = <<[kind |-> "json", array |-> outputs]>>
            /\ pc' = "done"
            /\ UNCHANGED error
       ELSE IF maximize /\ best_objective = None
       THEN /\ pc' = "crashed"
            /\ error' = "TypeError"
            /\ UNCHANGED final_write
       ELSE /\ final_write' =
                   <<[kind |-> "best",
                      value |-> IF maximize THEN Negated(best_objective)
                                ELSE best_objective,
                      setting |-> best_setting]>>
            /\ pc' = "done"
            /\ UNCHANGED error
    /\ runUnchanged
    /\ UNCHANGED <<step, queued, running, ready, outputs, printed, stderr_sink,
                   progress, interrupted, objective_values, best_objective,
                   best_setting, steps_since_improvement, asks, tells, exits>>
    /\ UNCHANGED <<parseVars, rangeVars, substVars, mainVars, strategyVars>>

NextOpt ==
    WorkerStart \/ WorkerFinish \/ OptAsk \/ OptProcess \/ OptTell
        \/ OptInterrupt \/ OptReport

SpecOpt == InitOpt /\ [][NextOpt]_vars

\* the steps of optimize_command that are not an interrupt
OptProgress ==
    WorkerStart \/ WorkerFinish \/ OptAsk \/ OptProcess \/ OptTell \/ OptReport

\* the operating system runs the workers, the commands end and the
\* coordinating process goes on; an interrupt need not come
SpecOptFair == SpecOpt /\ WF_vars(OptProgress)

-----------------------------------------------------------------------------
(* Spec: one call of run_commands or of optimize_command.                  *)

Init == InitRun \/ InitOpt

Next ==
    RunProgress \/ RunInterrupt
        \/ OptAsk \/ OptProcess \/ OptTell \/ OptInterrupt \/ OptReport

Spec == Init /\ [][Next]_vars

-----------------------------------------------------------------------------
(* main: the dispatch on the strategy.                                     *)

\* the end of the first match of the pattern \{.+?\} that starts at s[i]: the
\* first "}" that follows s[i] = "{" and at least one more character; 0 when
\* there is none
MatchEnd(s, i) ==
    LET ends == {j \in (i + 2)..Len(s) : s[j] = "}"}
    IN  IF s[i] = "{" /\ ends # {}
        THEN CHOOSE j \in ends : \A k \in ends : j <= k
        ELSE 0

\* re.findall("\{.+?\}", s), from s[i] on: the non-overlapping matches, found
\* from left to right
RECURSIVE FindAllFrom(_, _)
FindAllFrom(s, i) ==
    IF i > Len(s) THEN <<>>
    ELSE IF MatchEnd(s, i) # 0
    THEN <<SubSeq(s, i, MatchEnd(s, i))>> \o FindAllFrom(s, MatchEnd(s, i) + 1)
    ELSE FindAllFrom(s, i + 1)

Braces == {"{", "}"}

\* s.strip("{}")
RECURSIVE StripBraces(_)
StripBraces(s) ==
    IF s # <<>> /\ s[1] \in Braces THEN StripBraces(Tail(s))
    ELSE IF s # <<>> /\ s[Len(s)] \in Braces
    THEN StripBraces(SubSeq(s, 1, Len(s) - 1))
    ELSE s

get_template_names(command_string) ==
    LET found == FindAllFrom(command_string, 1)
    IN  {StripBraces(found[i]) : i \in 1..Len(found)}

Strategies == {"random", "quasirandom", "grid", "repeat", "minimize", "maximize"}

\* the commands main is given: without a placeholder, with one, with two,
\* and with braces that make no placeholder
Commands ==
    { <<"e">>, <<"{", "x", "}">>, <<"e", " ", "{", "x", "}">>,
      <<"{", "x", "}", "{", "y", "}">>, <<"{", "x">>, <<"{", "}">> }

InitMain ==
    /\ strategy \in Strategies
    /\ base_command \in Commands
    /\ count \in 1..MaxCommands
    /\ range_names \in SUBSET RangeNames
    /\ templates = {}
    /\ parsed_ranges = <<>>
    /\ substitution_list = <<>>
    /\ driver = "none"
    /\ num_workers \in 0..MaxWorkers
    /\ output_json \in BOOLEAN
    /\ total = 0 /\ maximize = FALSE /\ pc = "main" /\ step = 0
    /\ queued = <<>> /\ running = {} /\ ready = <<>> /\ outputs = <<>>
    /\ printed = <<>> /\ stderr_sink = <<>> /\ progress = 0
    /\ interrupted = FALSE /\ final_write = <<>> /\ objective_values = <<>>
    /\ best_objective = None /\ best_setting = None
    /\ steps_since_improvement = 0 /\ asks = <<>> /\ tells = <<>>
    /\ error = "none" /\ exits = <<>>
    /\ IdleParse /\ IdleRange /\ IdleSubst /\ IdleStrategy

\* the orders in which a loop over the set S can visit its elements: the
\* iteration order of a set of strings follows the hashes of the strings,
\* which differ from one run of the interpreter to the next
Orders(S) ==
    { f \in [1..Cardinality(S) -> S] : \A i, j \in DOMAIN f : f[i] = f[j] => i = j }

\* the parameters of strategies.random, strategies.sobol and strategies.grid
StrategyParameters == <<"templated_string", "range_map", "trials">>

\* the arguments main calls them with: parsed_ranges and the count
StrategyArguments == <<"parsed_ranges", "count">>

\* [{}] * repeats
EmptyMappings(repeats) == [i \in 1..repeats |-> <<>>]

\* main, from the parsed base arguments to the call of optimize_command or of
\* run_commands, or to the exception or exit that ends it before
Main ==
    /\ pc = "main"
    /\ templates' = get_template_names(base_command)
    /\ IF strategy # "repeat" /\ templates' = {}
       THEN \* no template with a strategy that needs one
            /\ pc' = "crashed" /\ error' = "ValueError"
            /\ UNCHANGED <<driver, num_workers, total, maximize, queued,
                           parsed_ranges, substitution_list>>
       ELSE IF strategy # "repeat" /\ range_names # templates'
       THEN \* parse_range_args: a required option is missing or an option is
            \* unknown, argparse exits and os._exit(2) is called
            /\ pc' = "crashed" /\ error' = "SystemExit"
            /\ UNCHANGED <<driver, num_workers, total, maximize, queued,
                           parsed_ranges, substitution_list>>
       ELSE IF strategy # "repeat"
       THEN \* parse_range_args adds one option per template in the order of
            \* the loop over the set templates, and the namespace, and so the
            \* dict returned, holds its keys in that order
            /\ parsed_ranges' \in Orders(templates')
            /\ IF strategy \in {"minimize", "maximize"}
               THEN /\ driver' = "optimize_command"
                    /\ num_workers' = BatchSize(num_workers)
                    /\ total' = count
                    /\ maximize' = (strategy = "maximize")
                    /\ pc' = "ask"
                    /\ UNCHANGED <<queued, error, substitution_list>>
               ELSE \* random, quasirandom, grid: the strategy is called with
                    \* fewer arguments than it has parameters
                    /\ Len(StrategyArguments) # Len(StrategyParameters)
                    /\ pc' = "crashed" /\ error' = "TypeError"
                    /\ UNCHANGED <<driver, num_workers, total, maximize, queued,
                                   substitution_list>>
       ELSE \* repeat: substitutions = [{}] * repeats, and run_commands
            /\ substitution_list' = EmptyMappings(count)
            /\ driver' = "run_commands"
            /\ total' = Len(substitution_list')
            /\ pc' = IF num_workers > 0 THEN "pool_drain" ELSE "seq_next"
            /\ queued' = IF num_workers > 0
                         THEN args_packed(Len(substitution_list'))
                         ELSE <<>>
            /\ UNCHANGED <<num_workers, maximize, error, parsed_ranges>>
    /\ UNCHANGED <<output_json, step, running, ready, outputs, printed, stderr_sink,
                   progress, interrupted, final_write, objective_values,
                   best_objective, best_setting, steps_since_improvement, asks,
                   tells, exits>>
    /\ UNCHANGED <<strategy, base_command, count, range_names>>
    /\ UNCHANGED <<parseVars, rangeVars, substVars, strategyVars>>

NextMain == Main \/ Next

SpecMain == InitMain /\ [][NextMain]_vars

-----------------------------------------------------------------------------
(* Properties.                                                             *)

\* C3: when a placeholder {a} of the template is replaced by a value that
\* contains the placeholder {b} of another key of the mapping, that value
\* appears verbatim in the command returned, whatever the key order.
C3_ValuesVerbatim ==
    pcS = "done" =>
        \A i, j \in DOMAIN substitutions :
            ( /\ i # j
              /\ Occurs(Placeholder(substitutions[i][1]), template)
              /\ Occurs(Placeholder(substitutions[j][1]), substitutions[i][2]) )
            => Occurs(substitutions[i][2], command)

\* the value of a numeric token is zero or negative
NonPositive(tok) == cast_range_argument(tok).num <= 0

\* both tokens parse as integers
BothInt(a, b) == IntLiteral(a) /\ IntLiteral(b)

\* both tokens parse as numbers (an integer literal is a float literal too)
BothNumbers(a, b) == FloatLiteral(a) /\ FloatLiteral(b)

LogKinds == {"LogIntRange", "LogFloatRange"}

\* C7: a specification LOG a b with numeric a, b of which one is not
\* strictly positive is rejected: no log range is constructed from it.
C7_LogBoundsRejected ==
    ( /\ pcP = "done"
      /\ Len(values) = 3
      /\ values[1] = LOG
      /\ BothNumbers(values[2], values[3])
      /\ (NonPositive(values[2]) \/ NonPositive(values[3])) )
    => parsed.kind \notin LogKinds

\* the class the precedence int pair, number pair, LOG int pair, LOG number
\* pair, categorical gives to a specification of two or more tokens
ExpectedKind(vals) ==
    IF Len(vals) = 2 /\ BothInt(vals[1], vals[2]) THEN "IntRange"
    ELSE IF Len(vals) = 2 /\ BothNumbers(vals[1], vals[2]) THEN "FloatRange"
    ELSE IF Len(vals) = 3 /\ vals[1] = LOG /\ BothInt(vals[2], vals[3])
    THEN "LogIntRange"
    ELSE IF Len(vals) = 3 /\ vals[1] = LOG /\ BothNumbers(vals[2], vals[3])
    THEN "LogFloatRange"
    ELSE "CategoricalRange"

\* C8: a specification of two or more tokens is classified by that
\* precedence, and a categorical range holds exactly the raw tokens in order.
C8_Classification ==
    (pcP = "done" /\ Len(values) >= 2) =>
        /\ parsed.kind = ExpectedKind(values)
        /\ parsed.kind = "CategoricalRange" => parsed.categories = values

\* C8's case: an integer token followed by a token that is no number became
\* a categorical range of those two tokens.
C8_Witness ==
    /\ pcP = "done"
    /\ Len(values) = 2
    /\ IntLiteral(values[1])
    /\ ~FloatLiteral(values[2])
    /\ parsed = CategoricalRange(values)

\* the integers a grid's strings denote
GridValues == [i \in 1..Len(result) |-> IntOf(result[i])]

GridCalled == call.op = "grid" /\ rng.kind = "IntRange"

\* the count, the bounds, the order and the first element of an IntRange grid
GridShape ==
    LET g == GridValues
    IN  /\ Len(g) = Min(call.divisions, rng.max_value - rng.min_value + 1)
        /\ \A i \in 1..Len(g) : rng.min_value <= g[i] /\ g[i] <= rng.max_value
        /\ \A i \in 1..(Len(g) - 1) : g[i] <= g[i + 1]
        /\ g[1] = rng.min_value

\* C9 as stated: grid(d) of IntRange(a,b) has min(d, b-a+1) values within
\* [a,b], non-decreasing, the first a and the last b.
C9_GridEndsAtMax ==
    GridCalled => GridShape /\ GridValues[Len(GridValues)] = rng.max_value

\* C9 as amended: grid(d) of IntRange(a,b) has min(d, b-a+1) values within
\* [a,b], non-decreasing, the first a, and the last b when it has two values
\* or more; a grid of one value is <<a>>.
C9_Grid ==
    GridCalled =>
        /\ GridShape
        /\ Len(GridValues) >= 2 => GridValues[Len(GridValues)] = rng.max_value

\* C9's case: a range of several integers cut into several but fewer points.
C9_Witness ==
    /\ GridCalled
    /\ rng.min_value < 0
    /\ 2 <= call.divisions
    /\ call.divisions < rng.max_value - rng.min_value + 1
    /\ Len(result) = call.divisions

TransformCalled == call.op = "transform_uniform_sample" /\ rng.kind = "IntRange"

\* C10: for u = k / UDen in [0,1), transform_uniform_sample(u) of
\* IntRange(a,b) is floor(u * (b-a+1)) + a, a value within [a,b].
C10_TransformIsFloor ==
    (TransformCalled /\ call.k < UDen) =>
        LET v == IntOf(result[1])
            dynamic_range == rng.max_value - rng.min_value + 1
        IN  /\ v = FloorDiv(call.k * dynamic_range, UDen) + rng.min_value
            /\ rng.min_value <= v
            /\ v <= rng.max_value

\* C11: for every u = k / UDen in [0,1], transform_uniform_sample(u) of a
\* CategoricalRange of n categories returns a category: the one of the chunk
\* floor(u * n) that u falls in, and the last one for u = 1.
C11_CategoryForEveryU ==
    (call.op = "transform_uniform_sample" /\ rng.kind = "CategoricalRange") =>
        LET n == Len(rng.categories)
        IN  result[1] = rng.categories[Min(FloorDiv(call.k * n, UDen), n - 1) + 1]

\* the steps of the results run_commands has taken from the pool or run
\* itself, in the order it took them
Drained ==
    IF output_json
    THEN [i \in 1..Len(outputs) |-> outputs[i].step]
    ELSE [i \in 1..Len(printed) |-> printed[i][1]]

PoolRun == driver = "run_commands" /\ num_workers > 0

\* the progress counter has advanced once per drained result, no step was
\* drained twice, and a run that ended without interrupt drained exactly the
\* steps 0 .. total-1
C1_DrainedOnce ==
    PoolRun =>
        /\ progress = Len(Drained)
        /\ \A i, j \in 1..Len(Drained) : Drained[i] = Drained[j] => i = j
        /\ (pc \in {"report", "done"} /\ ~interrupted) =>
               /\ Len(Drained) = total
               /\ {Drained[i] : i \in 1..Len(Drained)} = 0..(total - 1)

\* C1: run_commands with workers, when no interrupt comes and every command
\* ends, eventually returns having drained exactly one result per step
\* 0 .. total-1 and advanced the progress counter once per result, whatever
\* the order in which the workers finish.
C1_AllDrained ==
    /\ []C1_DrainedOnce
    /\ PoolRun => <>(interrupted \/ (pc = "done" /\ progress = total))

\* C1's case: a run with workers ended without interrupt and its first
\* drained result is not the one of the first step.
C1_Witness ==
    /\ PoolRun
    /\ pc = "done"
    /\ ~interrupted
    /\ total = MaxCommands
    /\ Drained[1] # 0

\* C2: an interrupt of run_commands ends the run without an exception, and in
\* JSON mode the results that were complete are written.
C2_InterruptGraceful ==
    (driver = "run_commands" /\ interrupted) =>
        /\ error = "none"
        /\ (pc = "done" /\ output_json) =>
               final_write = <<[kind |-> "json", array |-> outputs]>>

SeqRun == driver = "run_commands" /\ num_workers = 0

\* C4: without workers at most one command runs at a time, the command of
\* step k runs only when exactly the commands of the steps before k have
\* ended, and the JSON array written holds the results in submission order,
\* the i-th with step i-1 (all of them when no interrupt came).
C4_Sequential ==
    SeqRun =>
        /\ Cardinality(running) <= 1
        /\ \A k \in running : DOMAIN exits = 0..(k - 1)
        /\ (pc = "done" /\ output_json) =>
               /\ Len(final_write) = 1
               /\ final_write[1].kind = "json"
               /\ \A i \in 1..Len(final_write[1].array) :
                      final_write[1].array[i].step = i - 1
               /\ ~interrupted => Len(final_write[1].array) = total

\* C4's case: a sequential JSON run of several commands ended normally.
C4_Witness ==
    /\ SeqRun
    /\ output_json
    /\ pc = "done"
    /\ ~interrupted
    /\ total = MaxCommands
    /\ Len(final_write[1].array) = MaxCommands

\* the results capture_command has returned and that are still held
Results ==
    {ready[i] : i \in 1..Len(ready)} \cup {outputs[i] : i \in 1..Len(outputs)}

\* every result holds the exit code of its command
ReturncodeVerbatim ==
    \A r \in Results : r.returncode = exits[r.step].returncode

\* the step whose result optimize_command was processing when it raised
FailedStep == step + Len(objective_values)

\* C5 as stated: every result holds its command's exit code, and a run is
\* never ended at a command that exited with a non-zero code.
C5_FailureNeverTerminates ==
    /\ ReturncodeVerbatim
    /\ (driver = "run_commands" /\ ~interrupted) => error = "none"
    /\ (driver = "optimize_command" /\ error = "ValueError") =>
           exits[FailedStep].returncode = 0

\* C5 as amended: every result holds its command's exit code; run_commands,
\* not interrupted, raises nothing and returns only when every command has
\* run; optimize_command, not interrupted, ends early only at a command whose
\* last line of stdout is no number, whatever that command's exit code, and
\* otherwise returns only when every command of every batch has run.
C5_FailureIsData ==
    /\ ReturncodeVerbatim
    /\ (driver = "run_commands" /\ ~interrupted) =>
           /\ error = "none"
           /\ pc = "done" => DOMAIN exits = 0..(total - 1)
    /\ (driver = "optimize_command" /\ ~interrupted) =>
           /\ error \in {"none", "ValueError"}
           /\ error = "ValueError" =>
                  ~get_command_output(exits[FailedStep].stdout).ok
           /\ pc = "done" =>
                  /\ step >= total
                  /\ DOMAIN exits = 0..(step - 1)

\* C5's case: optimize_command returned, not interrupted, although the
\* command of the first of several batches had exited with a non-zero code.
C5_Witness ==
    /\ driver = "optimize_command"
    /\ pc = "done"
    /\ ~interrupted
    /\ Len(tells) >= 2
    /\ exits[0].returncode # 0

\* a command has been started
Executed == running # {} \/ exits # <<>>

\* C6: under the repeat strategy a command with a placeholder is a
\* configuration error: no command is ever executed.
C6_RepeatForbidsTemplates ==
    (strategy = "repeat" /\ get_template_names(base_command) # {}) => ~Executed

\* the names of the matches of re.findall in the order they are found, each
\* at its first occurrence
RECURSIVE FirstOccurrences(_)
FirstOccurrences(names) ==
    IF names = <<>> THEN <<>>
    ELSE LET front == FirstOccurrences(SubSeq(names, 1, Len(names) - 1))
             last == names[Len(names)]
         IN  IF \E i \in DOMAIN front : front[i] = last THEN front
             ELSE Append(front, last)

DiscoveryOrder(command_string) ==
    LET found == FindAllFrom(command_string, 1)
    IN  FirstOccurrences([i \in DOMAIN found |-> StripBraces(found[i])])

\* main has parsed the ranges of a command with templates
RangesParsed ==
    /\ strategy \notin {"none", "repeat"}
    /\ pc # "main"
    /\ templates # {}
    /\ range_names = templates

\* the keys of a substitution mapping
Keys(mapping) == {mapping[i][1] : i \in DOMAIN mapping}

\* C12: the random and the sobol strategy, called by main with the range map
\* and the trial count, return as many substitution mappings as trials, each
\* with exactly the template names as its keys.
C12_TrialsMappings ==
    (RangesParsed /\ strategy \in {"random", "quasirandom"}) =>
        /\ error = "none"
        /\ Len(substitution_list) = count
        /\ \A i \in DOMAIN substitution_list :
               Keys(substitution_list[i]) = templates

\* C19: the keys of the range map are in the order in which the template
\* names are discovered in the command, from left to right, each at its
\* first occurrence.
C19_DiscoveryOrder ==
    RangesParsed => parsed_ranges = DiscoveryOrder(base_command)

\* the grid of the j-th range of the range map
AxisGrid(j) == Range_grid(range_map[j][2], grid_divisions, numpy_floor)

\* the number of combinations of the ranges after the j-th
RECURSIVE Stride(_)
Stride(j) == IF j >= Len(range_map) THEN 1 ELSE Len(AxisGrid(j + 1)) * Stride(j + 1)

\* the entries are as many as the product of the grid lengths, and the k-th
\* combination holds, for every range, the grid value at the index that
\* counting with the last range fastest gives it
ProductOrder ==
    /\ Len(combinations) = Len(AxisGrid(1)) * Stride(1)
    /\ Len(command_strings) = Len(combinations)
    /\ \A k \in DOMAIN combinations :
           /\ Len(combinations[k]) = Len(range_map)
           /\ \A j \in DOMAIN range_map :
                  combinations[k][j] =
                      AxisGrid(j)[(((k - 1) \div Stride(j)) % Len(AxisGrid(j))) + 1]

\* no two entries hold the same combination of values
NoCombinationTwice ==
    \A k, l \in DOMAIN combinations : combinations[k] = combinations[l] => k = l

\* every grid holds a value once
GridsDistinct ==
    \A j \in DOMAIN range_map :
        \A a, b \in DOMAIN AxisGrid(j) : AxisGrid(j)[a] = AxisGrid(j)[b] => a = b

\* C13 as stated: the grid strategy returns one entry per element of the
\* product of the ranges' grids, in product order with the last template
\* fastest, and no combination appears twice.
C13_ProductNoDuplicate ==
    pcG = "done" => ProductOrder /\ NoCombinationTwice

\* C13 as amended: the grid strategy returns one entry per element of the
\* product of the ranges' grids, in product order with the last template
\* fastest; no combination of values appears twice exactly when no grid
\* holds a value twice.
C13_Product ==
    pcG = "done" => ProductOrder /\ (NoCombinationTwice <=> GridsDistinct)

\* C13's case: two ranges whose grids have different lengths, each of two
\* values or more.
C13_Witness ==
    /\ pcG = "done"
    /\ Len(range_map) = 2
    /\ Len(AxisGrid(1)) >= 2
    /\ Len(AxisGrid(2)) > Len(AxisGrid(1))
    /\ Len(combinations) = Len(AxisGrid(1)) * Len(AxisGrid(2))

OptRun == driver = "optimize_command"

\* a = b for numbers
NumEq(a, b) == a.num * b.den = b.num * a.den

\* the tells hold the asks they answer, one tell per ask and in the order of
\* the asks, and at most the last ask is not yet told
OneTellPerAsk ==
    /\ Len(tells) <= Len(asks)
    /\ Len(asks) <= Len(tells) + 1
    /\ \A i \in DOMAIN tells : tells[i][1] = asks[i]
    /\ \A i, j \in DOMAIN asks : i < j => asks[i] < asks[j]

\* an ask is made only when every earlier ask is told and every command of
\* the earlier batches has ended and has had its result taken
AskAfterTell ==
    asks' # asks =>
        /\ Len(tells) = Len(asks)
        /\ queued = <<>> /\ running = {} /\ ready = <<>>
        /\ DOMAIN exits = 0..(step - 1)
        /\ asks' = Append(asks, step)

\* C14: in optimize_command the ask, the evaluation of every candidate and
\* the tell of a batch are complete before the next batch is asked for, and
\* tell is called at most once per ask.
C14_BatchesInTurn ==
    /\ [](OptRun => OneTellPerAsk)
    /\ [][OptRun => AskAfterTell]_vars

\* C14's case: the second batch of two candidates has been asked for after
\* the first was told.
C14_Witness ==
    /\ OptRun
    /\ num_workers = 2
    /\ Len(asks) = 2
    /\ Len(tells) = 1
    /\ running # {}

\* ceil(a / b)
Ceil(a, b) == (a + b - 1) \div b

\* the loop has ended without interrupt and without error
LoopEnded == pc \in {"report", "done"} /\ ~interrupted /\ error = "none"

\* the loop ended after ceil(trials / batch_size) cycles of batch_size
\* candidates each
CyclesRun ==
    LET cycles == Ceil(total, num_workers)
    IN  /\ Len(asks) = cycles
        /\ Len(tells) = cycles
        /\ \A i \in DOMAIN tells : Len(tells[i][2]) = num_workers
        /\ DOMAIN exits = 0..(cycles * num_workers - 1)
        /\ progress = cycles * num_workers

\* C15: optimize_command, when no interrupt comes and no objective is
\* malformed, ends after exactly ceil(trials / batch_size) cycles of ask,
\* evaluation and tell, each of exactly batch_size candidates, so that it
\* evaluates trials rounded up to whole batches.
C15_Cycles ==
    /\ []((OptRun /\ LoopEnded) => CyclesRun)
    /\ OptRun => <>(interrupted \/ error # "none" \/ pc = "done")

\* C15's case: three trials in batches of two ended after four evaluations.
C15_Witness ==
    /\ OptRun
    /\ pc = "done"
    /\ ~interrupted
    /\ error = "none"
    /\ total = 3
    /\ num_workers = 2
    /\ Cardinality(DOMAIN exits) = 4

\* s.split("\n")
RECURSIVE Lines(_)
Lines(s) ==
    IF \A i \in DOMAIN s : s[i] # "\n" THEN <<s>>
    ELSE LET n == CHOOSE i \in DOMAIN s :
                      s[i] = "\n" /\ \A j \in 1..(i - 1) : s[j] # "\n"
         IN  <<SubSeq(s, 1, n - 1)>> \o Lines(SubSeq(s, n + 1, Len(s)))

\* a line is blank when it holds white space only
Blank(line) == \A i \in DOMAIN line : line[i] \in Whitespace

\* the last line of s that is not blank, without the white space around it;
\* the empty line when s has none
LastNonBlankLine(s) ==
    LET lines == Lines(s)
        full == {i \in DOMAIN lines : ~Blank(lines[i])}
    IN  IF full = {} THEN <<>>
        ELSE Strip(lines[CHOOSE i \in full : \A j \in full : j <= i])

\* the objective of the command of step s: the number on the last non-blank
\* line of its stdout, negated when maximizing
RawObjective(s) == cast_range_argument(LastNonBlankLine(exits[s].stdout))

SignedObjective(s) ==
    IF maximize THEN Negated(RawObjective(s)) ELSE RawObjective(s)

\* the objectives of the first n tells
RECURSIVE Told(_)
Told(n) == IF n = 0 THEN <<>> ELSE Told(n - 1) \o tells[n][2]

\* the objectives of the results processed so far, in the order they were
\* processed: the i-th is the one of step i - 1
Processed ==
    Told(Len(tells)) \o (IF Len(asks) > Len(tells) THEN objective_values ELSE <<>>)

\* every result processed has a number on the last non-blank line of its
\* stdout, and that number, signed, is its objective
ObjectivesParsed ==
    \A i \in DOMAIN Processed :
        /\ (i - 1) \in DOMAIN exits
        /\ FloatLiteral(LastNonBlankLine(exits[i - 1].stdout))
        /\ NumEq(Processed[i], SignedObjective(i - 1))

\* the error was raised at a result whose last non-blank line is no number,
\* and its message quotes that line
ErrorQuotesLine ==
    error = "ValueError" =>
        LET line == LastNonBlankLine(exits[FailedStep].stdout)
        IN  /\ ~FloatLiteral(line)
            /\ stderr_sink # <<>>
            /\ stderr_sink[Len(stderr_sink)] = <<"Got: ">> \o line \o <<".">>

\* after the error nothing is asked, started or told
NothingAfterError ==
    error = "ValueError" =>
        /\ asks' = asks
        /\ tells' = tells
        /\ running' \subseteq running
        /\ queued' = queued

\* C16: the objective of a result is the number on the last non-empty line
\* of its stdout; when that line is no number optimize_command raises an
\* error that quotes the line, and after the error there is no further ask,
\* command start or tell.
C16_ObjectiveOrFatal ==
    /\ [](OptRun => (ObjectivesParsed /\ ErrorQuotesLine))
    /\ [][OptRun => NothingAfterError]_vars

\* C16's case: the error was raised in the second batch, at a result with a
\* last line that is no number, while the other command of the batch ran.
C16_Witness ==
    /\ OptRun
    /\ error = "ValueError"
    /\ Len(tells) = 1
    /\ running # {}
    /\ LastNonBlankLine(exits[FailedStep].stdout) = <<"a">>

\* the first position of the least of the numbers of a non-empty sequence
FirstLeast(seq) ==
    CHOOSE i \in DOMAIN seq :
        /\ \A j \in DOMAIN seq : Leq(seq[i], seq[j])
        /\ \A j \in 1..(i - 1) : ~Leq(seq[j], seq[i])

\* a raw objective that no other raw objective exceeds
GreatestRaw(v) ==
    /\ \E i \in DOMAIN Processed : NumEq(v, RawObjective(i - 1))
    /\ \A i \in DOMAIN Processed : Leq(RawObjective(i - 1), v)

LeastRaw(v) ==
    /\ \E i \in DOMAIN Processed : NumEq(v, RawObjective(i - 1))
    /\ \A i \in DOMAIN Processed : Leq(v, RawObjective(i - 1))

\* C17: after every processed result best_objective is the least signed
\* objective so far, best_setting the setting of the first result that
\* attained it, steps_since_improvement the number of results processed
\* since that one; the value reported is the greatest raw objective under
\* maximize and the least under minimize.
C17_BestSoFar ==
    OptRun =>
        /\ Len(Processed) = progress
        /\ Processed = <<>> =>
               /\ best_objective = None
               /\ best_setting = None
               /\ steps_since_improvement = 0
        /\ Processed # <<>> =>
               LET m == FirstLeast(Processed)
               IN  /\ best_objective # None
                   /\ NumEq(best_objective, Processed[m])
                   /\ best_setting = [step |-> m - 1]
                   /\ steps_since_improvement = Len(Processed) - m
        /\ (pc = "done" /\ ~output_json /\ Processed # <<>>) =>
               /\ final_write[1].setting = best_setting
               /\ IF maximize THEN GreatestRaw(final_write[1].value)
                  ELSE LeastRaw(final_write[1].value)

\* C17's case: under maximize three results were processed, the second the
\* greatest and the first the least, and the second's objective was reported.
C17_Witness ==
    /\ OptRun
    /\ maximize
    /\ pc = "done"
    /\ ~output_json
    /\ Len(Processed) = 3
    /\ ~Leq(RawObjective(2), RawObjective(0))
    /\ ~Leq(RawObjective(1), RawObjective(2))
    /\ NumEq(final_write[1].value, RawObjective(1))

\* C18: however the loop of optimize_command ends, by the end of the trials
\* or by an interrupt at any point, the driver then makes its report (the
\* best objective and setting, or the JSON array) without failing.
C18_ReportsWithoutFailing ==
    (OptRun /\ pc \in {"done", "crashed"} /\ error # "ValueError") =>
        /\ error = "none"
        /\ Len(final_write) = 1

\* C20: once an interrupt has come to run_commands with a pool or to
\* optimize_command no command is started: the commands running after a
\* step are among those running before it.
C20_NoStartAfterInterrupt ==
    [][(UsesPool /\ interrupted) => running' \subseteq running]_vars

\* C21: the values grid(d) of an IntRange or a LogIntRange returns, whatever
\* the signs of its bounds and for every d >= 1, are pairwise distinct (and
\* the call returns values, it raises no exception).
C21_GridDistinct ==
    (call.op = "grid" /\ rng.kind \in {"IntRange", "LogIntRange"}) =>
        /\ \A i \in 1..Len(result) : result[i] # ValueError
        /\ \A i, j \in 1..Len(result) : i # j => result[i] # result[j]

\* the t-th tell answers the t-th ask with one objective for each of its
\* num_workers vectors, the i-th the signed objective of the command of step
\* asks[t] + i - 1, the one that was run with the i-th vector
TellAligned(t) ==
    /\ tells[t][1] = asks[t]
    /\ Len(tells[t][2]) = num_workers
    /\ \A i \in 1..num_workers :
        /\ (asks[t] + i - 1) \in DOMAIN exits
        /\ NumEq(tells[t][2][i], SignedObjective(asks[t] + i - 1))

\* C22: at every tell the objective list is as long as the list of asked
\* vectors and its i-th entry is the signed objective of the command run
\* with the i-th vector, in whatever order the workers finished; and after
\* an interrupt nothing is told.
C22_TellInAskOrder ==
    /\ [](OptRun => \A t \in DOMAIN tells : TellAligned(t))
    /\ [][(OptRun /\ interrupted) => tells' = tells]_vars

\* C22's case: a batch of two was told with two different objectives, and
\* the next batch was cut short by an interrupt after one of its results.
C22_Witness ==
    /\ OptRun
    /\ num_workers = 2
    /\ Len(tells) = 1
    /\ ~NumEq(tells[1][2][1], tells[1][2][2])
    /\ Len(asks) = 2
    /\ interrupted
    /\ Len(objective_values) = 1
    /\ pc = "done"

=============================================================================
